---- MODULE Spec2Model ----
(***************************************************************************)
(* Model of the pandas layer of oura_contraindications:                    *)
(*   client_pandas.py      to_pandas, OuraClientDataFrame (API v1)         *)
(*   v2/client_pandas.py   to_pandas, OuraClientDataFrameV2 (API v2)       *)
(*   export/writers.py     save_as_xlsx                                    *)
(* A call of the caller is one action: it draws its arguments and what the *)
(* API collaborator answers, runs the whole method, and leaves the outcome *)
(* (a returned table or a raised exception) in the state.                  *)
(***************************************************************************)
EXTENDS Integers, Sequences, FiniteSets, TLC

VARIABLES op, fetched, metricsArg, metricsAfter, dateKey, convertArg,
          convertCols, ret, calls, exportArg, writer

vars == <<op, fetched, metricsArg, metricsAfter, dateKey, convertArg,
          convertCols, ret, calls, exportArg, writer>>

(***************************************************************************)
(* Bounds of the model.                                                    *)
(***************************************************************************)
\* longest summary (number of records) one fetch returns
MaxRecords == 2
\* calendar days the key values range over
MaxDay == 2
\* longest metrics list a caller passes
MaxMetrics == 2
\* records returned by the three fetches of combined_df_edited together
MaxCombined == 4
\* columns of a table the caller builds itself and exports
MaxCols == 2

(***************************************************************************)
(* Generic sequence helpers.                                               *)
(***************************************************************************)
Range(s) == {s[i] : i \in 1..Len(s)}

SeqsUpTo(S, n) == UNION {[1..k -> S] : k \in 0..n}

NoDup(s) == \A i, j \in 1..Len(s) : i # j => s[i] # s[j]

IndexOf(s, x) == CHOOSE i \in 1..Len(s) : s[i] = x

\* F applied to the value of v, v computed once
With(v, F(_)) == CHOOSE out \in {F(x) : x \in {v}} : TRUE

RemoveAt(s, i) == [k \in 1..(Len(s) - 1) |-> IF k < i THEN s[k] ELSE s[k + 1]]

(***************************************************************************)
(* Cells.  A raw key value is the JSON string of the date field: a         *)
(* calendar date ("2020-10-31"), a timestamp within a day                  *)
(* ("2020-10-31T08:00:00+00:00") or a string that is no date.  Every other *)
(* cell is an opaque value.                                                *)
(***************************************************************************)
Hours == {8, 20}

DateStr(d) == [form |-> "date", day |-> d, hour |-> 0]

TimestampStr(d, h) == [form |-> "datetime", day |-> d, hour |-> h]

JunkStr == [form |-> "junk", day |-> 0, hour |-> 0]

OtherCell == [form |-> "value", day |-> 0, hour |-> 0]

DateKeys == {DateStr(d) : d \in 1..MaxDay}

RawKeys == DateKeys \cup {TimestampStr(d, h) : d \in 1..MaxDay, h \in Hours}
             \cup {JunkStr}

\* the summary_date of API v1 is a calendar date string (or malformed)
RawKeysV1 == DateKeys \cup {JunkStr}

(***************************************************************************)
(* Summaries as the API collaborator returns them: a list of flat records  *)
(* of one schema (or a single record, a dict), the first column of the     *)
(* schema holding the date.                                                *)
(***************************************************************************)
SleepCols == <<"summary_date", "score", "bedtime_start">>

ReadinessCols == <<"summary_date", "score">>

ActivityCols == <<"summary_date", "score", "day_start">>

BedtimeCols == <<"date", "status">>

TimestampCols == <<"timestamp", "score">>

DayCols == <<"day", "score">>

Summary(cols, keys, isdict) == [cols |-> cols, keys |-> keys, isdict |-> isdict]

Summaries(cols, raw) ==
    {Summary(cols, k, FALSE) : k \in SeqsUpTo(raw, MaxRecords)}
      \cup {Summary(cols, <<r>>, TRUE) : r \in raw}

(***************************************************************************)
(* The caller's metrics argument: None, one name (str) or a list of names. *)
(***************************************************************************)
\* names a caller asks for: the key of the summary, a metric, a name that is
\* no column
MetricNames(key) == {key, "score", "bogus_col"}

MetricsNone == [type |-> "none", str |-> "", items |-> <<>>]

MetricsStr(s) == [type |-> "str", str |-> s, items |-> <<>>]

MetricsList(l) == [type |-> "list", str |-> "", items |-> l]

MetricsArgs(key) ==
    {MetricsNone} \cup {MetricsStr(s) : s \in MetricNames(key)}
      \cup {MetricsList(l) :
               l \in {s \in SeqsUpTo(MetricNames(key), MaxMetrics) : NoDup(s)}}

(***************************************************************************)
(* Data frames: ordered columns with their dtypes, rows of cells parallel  *)
(* to the columns, and the index (its name, "" for the default RangeIndex, *)
(* and one value per row when a column was promoted to it).                *)
(***************************************************************************)
Frame(columns, dtypes, data, index_name, index) ==
    [columns |-> columns, dtypes |-> dtypes, data |-> data,
     index_name |-> index_name, index |-> index]

EmptyFrame == Frame(<<>>, <<>>, <<>>, "", <<>>)

\* dtype pandas infers for a JSON column
RawDtype(c) == IF c = "score" THEN "int64" ELSE "object"

\* lines 21-22: a single record (a dict) becomes the list holding it
AsList(summary) ==
    IF summary.isdict THEN Summary(summary.cols, <<summary.keys[1]>>, FALSE)
    ELSE summary

\* pd.DataFrame(records): no records give the frame without columns
DataFrame(records) ==
    IF Len(records.keys) = 0
    THEN EmptyFrame
    ELSE Frame(records.cols,
               [i \in 1..Len(records.cols) |-> RawDtype(records.cols[i])],
               [r \in 1..Len(records.keys) |->
                   [i \in 1..Len(records.cols) |->
                       IF i = 1 THEN records.keys[r] ELSE OtherCell]],
               "", <<>>)

\* df.size
Size(df) == Len(df.data) * Len(df.columns)

\* df[metrics]: the listed columns, in the listed order
Project(df, names) ==
    LET pos == [k \in 1..Len(names) |-> IndexOf(df.columns, names[k])]
    IN  Frame(names,
              [k \in 1..Len(names) |-> df.dtypes[pos[k]]],
              [r \in 1..Len(df.data) |-> [k \in 1..Len(names) |-> df.data[r][pos[k]]]],
              df.index_name, df.index)

\* pd.to_datetime accepts the string
Parses(cell) == cell.form \in {"date", "datetime"}

\* pd.to_datetime(...) of one string: the instant it denotes
ToDatetime(cell) == [day |-> cell.day, hour |-> cell.hour]

\* .dt.date: the calendar date of an instant
DtDate(ts) == ts.day

\* df[date_key] = pd.to_datetime(df[date_key]).dt.date ; df.set_index(date_key)
SetDateIndex(df, date_key) ==
    LET p == IndexOf(df.columns, date_key)
    IN  Frame(RemoveAt(df.columns, p), RemoveAt(df.dtypes, p),
              [r \in 1..Len(df.data) |-> RemoveAt(df.data[r], p)],
              date_key,
              [r \in 1..Len(df.data) |-> DtDate(ToDatetime(df.data[r][p]))])

(***************************************************************************)
(* Outcomes of a call.                                                     *)
(***************************************************************************)
Returned(df) == [status |-> "ok", exc |-> "", table |-> df]

Raised(e) == [status |-> "raise", exc |-> e, table |-> EmptyFrame]

(***************************************************************************)
(* Python list objects live in a heap (a sequence of lists, a reference is *)
(* a position): the caller's metrics list is one object, and what          *)
(* to_pandas does to its local name "metrics" either makes a new object or *)
(* mutates the one the name refers to.                                     *)
(***************************************************************************)
HeapRef(heap, ref) == [heap |-> heap, ref |-> ref]

\* the metrics handling written in place, on the caller's own list
NormalizeMetricsInPlace(heap, ref, isstr, str, columns, date_key) ==
    LET h0 == IF isstr THEN Append(heap, <<str>>) ELSE heap
        r0 == IF isstr THEN Len(heap) + 1 ELSE ref
        h1 == [h0 EXCEPT ![r0] = SelectSeq(h0[r0], LAMBDA m : m \in Range(columns))]
        h2 == IF date_key \notin Range(h1[r0])
              THEN [h1 EXCEPT ![r0] = <<date_key>> \o h1[r0]]
              ELSE h1
    IN  HeapRef(h2, r0)

\* the metrics handling without the comprehension that drops invalid names
NormalizeMetricsKeepInvalid(heap, ref, isstr, str, columns, date_key) ==
    LET h0 == IF isstr THEN Append(heap, <<str>>) ELSE Append(heap, heap[ref])
        r0 == Len(heap) + 1
        h2 == IF date_key \notin Range(h0[r0])
              THEN [h0 EXCEPT ![r0] = <<date_key>> \o h0[r0]]
              ELSE h0
    IN  HeapRef(h2, r0)

\* lines 26-36: [metrics] or metrics.copy(), the comprehension dropping the
\* names that are no column, and insert(0, date_key) on the new list
NormalizeMetrics(heap, ref, isstr, str, columns, date_key) ==
    LET h0 == IF isstr THEN Append(heap, <<str>>) ELSE Append(heap, heap[ref])
        r0 == Len(heap) + 1
        h1 == Append(h0, SelectSeq(h0[r0], LAMBDA m : m \in Range(columns)))
        r1 == Len(h0) + 1
        h2 == IF date_key \notin Range(h1[r1])
              THEN [h1 EXCEPT ![r1] = <<date_key>> \o h1[r1]]
              ELSE h1
    IN  HeapRef(h2, r1)

\* the heap a call starts from: the caller's list is object 1
CallerHeap(metrics) == <<metrics.items>>

\* the metrics argument as the caller sees it after the call
CallerView(metrics, heap) ==
    IF metrics.type = "list" THEN MetricsList(heap[1]) ELSE metrics

(***************************************************************************)
(* to_pandas (the v1 and the v2 function have the same body; they differ   *)
(* in the default date_key).  The result carries the heap after the call.  *)
(***************************************************************************)
ToPandasResult(outcome, heap) == [outcome |-> outcome, heap |-> heap]

\* lines 26-41 on the non-empty frame df
ToPandasNonEmpty(df, metrics, date_key, heap) ==
    With(IF metrics.type = "none"
         THEN HeapRef(heap, 0)
         ELSE NormalizeMetrics(heap, 1, metrics.type = "str", metrics.str,
                               df.columns, date_key),
         LAMBDA norm :
           With(IF metrics.type = "none" THEN df.columns ELSE norm.heap[norm.ref],
                LAMBDA names :
                  IF ~(Range(names) \subseteq Range(df.columns))
                  THEN ToPandasResult(Raised("KeyError"), norm.heap)
                  ELSE With(IF metrics.type = "none" THEN df ELSE Project(df, names),
                            LAMBDA dfp :
                              IF date_key \notin Range(dfp.columns)
                              THEN ToPandasResult(Raised("KeyError"), norm.heap)
                              ELSE IF \E r \in 1..Len(dfp.data) :
                                        ~Parses(dfp.data[r][IndexOf(dfp.columns, date_key)])
                              THEN ToPandasResult(Raised("ParserError"), norm.heap)
                              ELSE ToPandasResult(Returned(SetDateIndex(dfp, date_key)),
                                                  norm.heap))))

\* the body without the early return of the empty frame
ToPandasNoEmptyCheck(summary, metrics, date_key, heap) ==
    With(DataFrame(AsList(summary)),
         LAMBDA df : ToPandasNonEmpty(df, metrics, date_key, heap))

\* the body with the rows whose key does not parse left out
ToPandasSkipBadRows(summary, metrics, date_key, heap) ==
    With(DataFrame(Summary(summary.cols, SelectSeq(summary.keys, Parses), FALSE)),
         LAMBDA df :
           IF Size(df) = 0
           THEN ToPandasResult(Returned(df), heap)
           ELSE ToPandasNonEmpty(df, metrics, date_key, heap))

\* lines 21-25, then the rest
ToPandas(summary, metrics, date_key, heap) ==
    With(DataFrame(AsList(summary)),
         LAMBDA df :
           IF Size(df) = 0
           THEN ToPandasResult(Returned(df), heap)
           ELSE ToPandasNonEmpty(df, metrics, date_key, heap))

(***************************************************************************)
(* The call log: what a method called, in order.                           *)
(***************************************************************************)
CallToPandas(metrics, date_key) ==
    [fn |-> "to_pandas", metrics |-> metrics, date_key |-> date_key,
     cols |-> [type |-> "none", str |-> "", items |-> <<>>]]

NoCols == [type |-> "none", str |-> "", items |-> <<>>]

ColsList(l) == [type |-> "list", str |-> "", items |-> l]

CallFetch(endpoint) ==
    [fn |-> endpoint, metrics |-> MetricsNone, date_key |-> "", cols |-> NoCols]

CallConverter(variant, convert_cols) ==
    [fn |-> variant, metrics |-> MetricsNone, date_key |-> "", cols |-> convert_cols]

(***************************************************************************)
(* Column converters (converters.py): for every configured column that is  *)
(* present, the column is replaced by its decoded values; a timestamp      *)
(* column becomes a timezone-aware datetime column.  Absent columns are    *)
(* skipped.                                                                *)
(***************************************************************************)
DefaultCols(variant) ==
    IF variant = "SleepConverter" THEN <<"bedtime_start">> ELSE <<"day_start">>

ConvertColsArgs(variant) == {NoCols, ColsList(<<>>), ColsList(DefaultCols(variant))}

ConvertMetrics(variant, convert_cols, df) ==
    LET cols == IF convert_cols.type = "none" THEN DefaultCols(variant)
                ELSE convert_cols.items
    IN  [df EXCEPT !.dtypes =
            [i \in 1..Len(df.columns) |->
                IF df.columns[i] \in Range(cols) THEN "datetimetz" ELSE df.dtypes[i]]]

(***************************************************************************)
(* OuraClientDataFrame (API v1).  Each method returns [outcome, calls,     *)
(* heap]: what it returns or raises, the calls it made, the heap after.    *)
(***************************************************************************)
SummaryLists(cols, raw) == {Summary(cols, k, FALSE) : k \in SeqsUpTo(raw, MaxRecords)}

MethodResult(outcome, log, heap) == [outcome |-> outcome, calls |-> log, heap |-> heap]

\* the summary fetched and handed to to_pandas, nothing else
FetchToPandas(endpoint, summary, metrics, date_key, heap) ==
    With(ToPandas(summary, metrics, date_key, heap),
         LAMBDA res :
           MethodResult(res.outcome,
                        <<CallFetch(endpoint),
                          CallToPandas(CallerView(metrics, heap), date_key)>>,
                        res.heap))

\* the converter run whatever `convert` says
ConvertingDfAlways(endpoint, variant, summary, metrics, convert, convert_cols, heap) ==
    With(FetchToPandas(endpoint, summary, metrics, "summary_date", heap),
         LAMBDA res :
           IF res.outcome.status = "ok"
           THEN MethodResult(
                    Returned(ConvertMetrics(variant, convert_cols, res.outcome.table)),
                    Append(res.calls, CallConverter(variant, convert_cols)), res.heap)
           ELSE res)

\* sleep_df and activity_df: fetch, to_pandas, and the converter if convert
ConvertingDf(endpoint, variant, summary, metrics, convert, convert_cols, heap) ==
    With(FetchToPandas(endpoint, summary, metrics, "summary_date", heap),
         LAMBDA res :
           IF res.outcome.status = "ok" /\ convert
           THEN MethodResult(
                    Returned(ConvertMetrics(variant, convert_cols, res.outcome.table)),
                    Append(res.calls, CallConverter(variant, convert_cols)), res.heap)
           ELSE res)

SleepDfResult(summary, metrics, convert, convert_cols, heap) ==
    ConvertingDf("sleep_summary", "SleepConverter", summary, metrics, convert,
                 convert_cols, heap)

ActivityDfResult(summary, metrics, convert, convert_cols, heap) ==
    ConvertingDf("activity_summary", "ActivityConverter", summary, metrics, convert,
                 convert_cols, heap)

ReadinessDfResult(summary, metrics, heap) ==
    FetchToPandas("readiness_summary", summary, metrics, "summary_date", heap)

BedtimeDfResult(summary, metrics, heap) ==
    FetchToPandas("bedtime_summary", summary, metrics, "date", heap)

(***************************************************************************)
(* combined_df_edited.                                                     *)
(***************************************************************************)
\* prefix_cols without the renaming
PrefixColsNone(df, prefix) == df

\* prefix_cols: every column but "summary_date" renamed prefix + ":" + col
PrefixCols(df, prefix) ==
    [df EXCEPT !.columns =
        [i \in 1..Len(df.columns) |->
            IF df.columns[i] # "summary_date"
            THEN prefix \o ":" \o df.columns[i]
            ELSE df.columns[i]]]

\* the row pairs of an inner join on the index: left order, then right order
RECURSIVE JoinPairs(_, _, _)
JoinPairs(left, right, i) ==
    IF i > Len(left.index)
    THEN <<>>
    ELSE SelectSeq([j \in 1..Len(right.index) |-> <<i, j>>],
                   LAMBDA p : left.index[p[1]] = right.index[p[2]])
           \o JoinPairs(left, right, i + 1)

\* a merge that keeps every left row (how="left")
MergeLeft(left, right, on) ==
    IF left.index_name # on \/ right.index_name # on
    THEN Raised("KeyError")
    ELSE Returned(Frame(left.columns \o right.columns, left.dtypes \o right.dtypes,
                        [k \in 1..Len(left.index) |-> left.data[k]],
                        on, left.index))

\* left.merge(right, on=on): an inner join on the index level named `on`
\* (after to_pandas the key is the index, never a column); KeyError when a
\* side has no such level; overlapping column names get _x / _y
Merge(left, right, on) ==
    IF left.index_name # on \/ right.index_name # on
    THEN Raised("KeyError")
    ELSE
      LET both  == Range(left.columns) \cap Range(right.columns)
          lcols == [i \in 1..Len(left.columns) |->
                       IF left.columns[i] \in both THEN left.columns[i] \o "_x"
                       ELSE left.columns[i]]
          rcols == [i \in 1..Len(right.columns) |->
                       IF right.columns[i] \in both THEN right.columns[i] \o "_y"
                       ELSE right.columns[i]]
      IN  With(JoinPairs(left, right, 1), LAMBDA pairs :
            Returned(Frame(lcols \o rcols, left.dtypes \o right.dtypes,
                           [k \in 1..Len(pairs) |->
                               left.data[pairs[k][1]] \o right.data[pairs[k][2]]],
                           on,
                           [k \in 1..Len(pairs) |-> left.index[pairs[k][1]]])))

\* lines 199-208 once the three tables are there: prefix, merge, merge
PrefixAndMerge(sleep_t, readiness_t, activity_t) ==
    With(PrefixCols(sleep_t, "SLEEP"), LAMBDA sleep_df :
    With(PrefixCols(readiness_t, "READY"), LAMBDA readiness_df :
    With(PrefixCols(activity_t, "ACTIVITY"), LAMBDA activity_df :
    With(Merge(sleep_df, readiness_df, "summary_date"), LAMBDA m1 :
         IF m1.status # "ok" THEN m1
         ELSE Merge(m1.table, activity_df, "summary_date")))))

\* combined_df_edited: the three fetches one after another with the same
\* metrics object, an exception of one ending the method there
CombinedDfEditedResult(sleep, readiness, activity, metrics, heap) ==
    With(SleepDfResult(sleep, metrics, TRUE, NoCols, heap), LAMBDA s :
      IF s.outcome.status # "ok" THEN s
      ELSE
    With(ReadinessDfResult(readiness, metrics, <<s.heap[1]>>), LAMBDA r :
      IF r.outcome.status # "ok"
      THEN MethodResult(r.outcome, s.calls \o r.calls, r.heap)
      ELSE
    With(ActivityDfResult(activity, metrics, TRUE, NoCols, <<r.heap[1]>>), LAMBDA a :
      IF a.outcome.status # "ok"
      THEN MethodResult(a.outcome, s.calls \o r.calls \o a.calls, a.heap)
      ELSE MethodResult(PrefixAndMerge(s.outcome.table, r.outcome.table,
                                       a.outcome.table),
                        s.calls \o r.calls \o a.calls, a.heap))))

(***************************************************************************)
(* OuraClientDataFrameV2: every method is a fetch and to_pandas.           *)
(***************************************************************************)
V2Kinds == {"activity_df", "cva_df", "heart_rate_df", "readiness_df", "sessions_df",
            "sleep_df", "tags_df", "vo2_df", "workouts_df"}

V2Endpoint(kind) ==
    CASE kind = "activity_df" -> "daily_activity"
      [] kind = "cva_df" -> "daily_cva"
      [] kind = "heart_rate_df" -> "heartrate"
      [] kind = "readiness_df" -> "daily_readiness"
      [] kind = "sessions_df" -> "session"
      [] kind = "sleep_df" -> "sleep"
      [] kind = "tags_df" -> "tags"
      [] kind = "vo2_df" -> "vo2Max"
      [] kind = "workouts_df" -> "workouts"

V2DateKey(kind) ==
    IF kind \in {"readiness_df", "sessions_df", "sleep_df", "workouts_df"}
    THEN "day" ELSE "timestamp"

V2DfResult(kind, summary, metrics, heap) ==
    FetchToPandas(V2Endpoint(kind), summary, metrics, V2DateKey(kind), heap)

(***************************************************************************)
(* save_as_xlsx.                                                           *)
(***************************************************************************)
\* localize that leaves the columns as they are
LocalizeNothing(df) == df

\* localize: tz_localize(None) on every column select_dtypes finds tz-aware
Localize(df) ==
    [df EXCEPT !.dtypes =
        [i \in 1..Len(df.columns) |->
            IF df.dtypes[i] = "datetimetz" THEN "datetime64" ELSE df.dtypes[i]]]

\* pd.ExcelWriter(file, engine="xlsxwriter", date_format=..., datetime_format=...)
ExcelWriter ==
    [open |-> TRUE, date_format |-> "m/d/yyy", datetime_format |-> "m/d/yyy h:mmAM/PM",
     index |-> FALSE, sheet |-> "", status |-> "", written |-> EmptyFrame]

\* df.to_excel(writer, index=index, **to_excel_kwargs): Excel has no
\* timezone-aware datetimes, pandas raises on one
ToExcel(w, df, index, sheet) ==
    IF \E i \in 1..Len(df.columns) : df.dtypes[i] = "datetimetz"
    THEN [w EXCEPT !.status = "ValueError", !.index = index, !.sheet = sheet]
    ELSE [w EXCEPT !.status = "ok", !.index = index, !.sheet = sheet, !.written = df]

SaveAsXlsxResult(df, index, sheet) == ToExcel(ExcelWriter, Localize(df), index, sheet)

NoWriter ==
    [open |-> FALSE, date_format |-> "", datetime_format |-> "",
     index |-> FALSE, sheet |-> "", status |-> "", written |-> EmptyFrame]

\* tables a caller builds and exports directly
Dtypes == {"object", "int64", "datetime64", "datetimetz"}

CallerTables ==
    {Frame([i \in 1..Len(t) |-> IF i = 1 THEN "a" ELSE IF i = 2 THEN "b" ELSE "c"], t,
           <<[i \in 1..Len(t) |-> OtherCell]>>, "", <<>>) :
        t \in SeqsUpTo(Dtypes, MaxCols)}

SheetNames == {"Sheet1", "oura"}

(***************************************************************************)
(* The state machine.                                                      *)
(***************************************************************************)
Init ==
    /\ op = "none"
    /\ fetched = <<>>
    /\ metricsArg = MetricsNone
    /\ metricsAfter = MetricsNone
    /\ dateKey = ""
    /\ convertArg = FALSE
    /\ convertCols = NoCols
    /\ ret = Raised("")
    /\ calls = <<>>
    /\ exportArg = EmptyFrame
    /\ writer = NoWriter

\* a direct call of client_pandas.to_pandas / v2.client_pandas.to_pandas
ToPandasCall(name, summary, metrics, date_key) ==
    LET res == ToPandas(summary, metrics, date_key, CallerHeap(metrics))
    IN  /\ op' = name
        /\ fetched' = <<summary>>
        /\ metricsArg' = metrics
        /\ metricsAfter' = CallerView(metrics, res.heap)
        /\ dateKey' = date_key
        /\ ret' = res.outcome
        /\ calls' = <<CallToPandas(metrics, date_key)>>
        /\ UNCHANGED <<convertArg, convertCols, exportArg, writer>>

ToPandasV1 ==
    /\ op = "none"
    /\ \E summary \in Summaries(SleepCols, RawKeys) \cup Summaries(BedtimeCols, RawKeys),
          date_key \in {"summary_date", "date"} :
         \E metrics \in MetricsArgs(date_key) :
           ToPandasCall("to_pandas", summary, metrics, date_key)

ToPandasV2 ==
    /\ op = "none"
    /\ \E summary \in Summaries(TimestampCols, RawKeys) \cup Summaries(DayCols, RawKeys),
          date_key \in {"timestamp", "day"} :
         \E metrics \in MetricsArgs(date_key) :
           ToPandasCall("v2.to_pandas", summary, metrics, date_key)

\* a method of one of the two clients, called by the caller
MethodCall(name, summaries, metrics, date_key, convert, convert_cols, res) ==
    /\ op' = name
    /\ fetched' = summaries
    /\ metricsArg' = metrics
    /\ metricsAfter' = CallerView(metrics, res.heap)
    /\ dateKey' = date_key
    /\ convertArg' = convert
    /\ convertCols' = convert_cols
    /\ ret' = res.outcome
    /\ calls' = res.calls
    /\ UNCHANGED <<exportArg, writer>>

SleepDf ==
    /\ op = "none"
    /\ \E summary \in SummaryLists(SleepCols, RawKeysV1),
          metrics \in MetricsArgs("summary_date"),
          convert \in BOOLEAN, convert_cols \in ConvertColsArgs("SleepConverter") :
        MethodCall("sleep_df", <<summary>>, metrics, "summary_date", convert, convert_cols,
                   SleepDfResult(summary, metrics, convert, convert_cols,
                                 CallerHeap(metrics)))

ActivityDf ==
    /\ op = "none"
    /\ \E summary \in SummaryLists(ActivityCols, RawKeysV1),
          metrics \in MetricsArgs("summary_date"),
          convert \in BOOLEAN, convert_cols \in ConvertColsArgs("ActivityConverter") :
        MethodCall("activity_df", <<summary>>, metrics, "summary_date", convert,
                   convert_cols,
                   ActivityDfResult(summary, metrics, convert, convert_cols,
                                    CallerHeap(metrics)))

ReadinessDf ==
    /\ op = "none"
    /\ \E summary \in SummaryLists(ReadinessCols, RawKeysV1),
          metrics \in MetricsArgs("summary_date") :
        MethodCall("readiness_df", <<summary>>, metrics, "summary_date", FALSE, NoCols,
                   ReadinessDfResult(summary, metrics, CallerHeap(metrics)))

BedtimeDf ==
    /\ op = "none"
    /\ \E summary \in SummaryLists(BedtimeCols, RawKeysV1),
          metrics \in MetricsArgs("date") :
        MethodCall("bedtime_df", <<summary>>, metrics, "date", FALSE, NoCols,
                   BedtimeDfResult(summary, metrics, CallerHeap(metrics)))

CombinedDfEdited ==
    /\ op = "none"
    /\ \E sleep \in SummaryLists(SleepCols, RawKeysV1),
       readiness \in SummaryLists(ReadinessCols, RawKeysV1),
       activity \in SummaryLists(ActivityCols, RawKeysV1),
       metrics \in MetricsArgs("summary_date") :
        /\ Len(sleep.keys) + Len(readiness.keys) + Len(activity.keys) <= MaxCombined
        /\ MethodCall("combined_df_edited", <<sleep, readiness, activity>>, metrics,
                      "summary_date", TRUE, NoCols,
                      CombinedDfEditedResult(sleep, readiness, activity, metrics,
                                             CallerHeap(metrics)))

V2Df ==
    /\ op = "none"
    /\ \E kind \in V2Kinds :
      \E metrics \in MetricsArgs(V2DateKey(kind)),
         summary \in SummaryLists(IF V2DateKey(kind) = "day" THEN DayCols
                                  ELSE TimestampCols, RawKeys) :
        MethodCall("v2." \o kind, <<summary>>, metrics, V2DateKey(kind), FALSE, NoCols,
                   V2DfResult(kind, summary, metrics, CallerHeap(metrics)))

\* save_as_xlsx(df, file, index, **to_excel_kwargs) on a table
SaveAsXlsx(df, index, sheet) ==
    /\ ~writer.open
    /\ exportArg' = df
    /\ writer' = SaveAsXlsxResult(df, index, sheet)
    /\ UNCHANGED <<fetched, metricsArg, metricsAfter, dateKey, convertArg,
                   convertCols, ret, calls>>

\* the caller exports the table a client method returned
SaveReturned ==
    /\ op \in {"sleep_df", "activity_df", "combined_df_edited"}
    /\ ret.status = "ok"
    /\ \E index \in BOOLEAN, sheet \in SheetNames : SaveAsXlsx(ret.table, index, sheet)
    /\ UNCHANGED op

\* the caller exports a table of its own
SaveOwn ==
    /\ op = "none"
    /\ \E df \in CallerTables, index \in BOOLEAN, sheet \in SheetNames :
           SaveAsXlsx(df, index, sheet)
    /\ op' = "save_as_xlsx"

Next ==
    \/ ToPandasV1
    \/ ToPandasV2
    \/ SleepDf
    \/ ActivityDf
    \/ ReadinessDf
    \/ BedtimeDf
    \/ CombinedDfEdited
    \/ V2Df
    \/ SaveReturned
    \/ SaveOwn

Spec == Init /\ [][Next]_vars

(***************************************************************************)
(* Properties.                                                             *)
(***************************************************************************)
IsToPandas == op \in {"to_pandas", "v2.to_pandas"}

SingleFetchOps ==
    {"to_pandas", "v2.to_pandas", "sleep_df", "activity_df", "readiness_df",
     "bedtime_df"} \cup {"v2." \o k : k \in V2Kinds}

\* the calendar dates the key values of a summary denote
DatesOf(summary) == {DtDate(ToDatetime(k)) : k \in Range(summary.keys)}

AllParse(summary) == \A k \in Range(summary.keys) : Parses(k)

\* the date column of the fetched summary is the one the call promotes
KeyPresent == dateKey = fetched[1].cols[1]

\* the names the caller asked for
Requested(metrics) ==
    IF metrics.type = "str" THEN {metrics.str} ELSE Range(metrics.items)

\* C1: a table to_pandas returns for non-empty records whose keys all parse
\* has as many rows as there are distinct dates among the keys.
C1_OneRowPerDistinctDate ==
    (/\ IsToPandas
     /\ Len(fetched[1].keys) > 0
     /\ AllParse(fetched[1])
     /\ ret.status = "ok")
    => Len(ret.table.index) = Cardinality(DatesOf(fetched[1]))

\* C2: for summaries whose keys all parse, empty ones included,
\* combined_df_edited returns a table, and its dates are exactly those
\* present in all three summaries.
C2_InnerJoinOfAnyInputs ==
    (/\ op = "combined_df_edited"
     /\ \A k \in 1..3 : AllParse(fetched[k]))
    => /\ ret.status = "ok"
       /\ Range(ret.table.index)
            = DatesOf(fetched[1]) \cap DatesOf(fetched[2]) \cap DatesOf(fetched[3])

\* the inner join as it holds of the code: the three summaries non-empty
CombinedInnerJoinOfNonEmpty ==
    (/\ op = "combined_df_edited"
     /\ \A k \in 1..3 : AllParse(fetched[k]) /\ Len(fetched[k].keys) > 0)
    => /\ ret.status = "ok"
       /\ Range(ret.table.index)
            = DatesOf(fetched[1]) \cap DatesOf(fetched[2]) \cap DatesOf(fetched[3])

CombinedNonEmptyReached ==
    /\ op = "combined_df_edited"
    /\ ret.status = "ok"
    /\ Range(ret.table.index) # {}
    /\ DatesOf(fetched[1]) # DatesOf(fetched[2])

\* the columns of the table to_pandas makes of the k-th fetched summary
TableColumns(k) ==
    ToPandas(fetched[k], metricsArg, "summary_date",
             CallerHeap(metricsArg)).outcome.table.columns

Prefixed(prefix, cols) == [i \in 1..Len(cols) |-> prefix \o ":" \o cols[i]]

C4_RequestedPresentPlusKey ==
    (IsToPandas /\ Len(fetched[1].keys) > 0 /\ metricsArg.type # "none")
    => /\ ret.status = "ok"
          => /\ ret.table.index_name = dateKey
             /\ Range(ret.table.columns) \cup {ret.table.index_name}
                  = (Requested(metricsArg) \cap Range(fetched[1].cols)) \cup {dateKey}
       /\ (KeyPresent /\ AllParse(fetched[1])) => ret.status = "ok"

C4_BogusOnly ==
    /\ IsToPandas
    /\ metricsArg = MetricsList(<<"bogus_col">>)
    /\ ret.status = "ok"
    /\ Len(ret.table.index) > 0
    /\ ret.table.columns = <<>>
    /\ ret.table.index_name = dateKey

\* C5: to_pandas of no records returns the empty table, whatever metrics
\* and date_key are, and promotes no key.
C5_EmptyReturnsEmpty ==
    (IsToPandas /\ Len(fetched[1].keys) = 0)
    => ret = Returned(EmptyFrame)

C5_EmptyWithMetrics ==
    /\ IsToPandas
    /\ Len(fetched[1].keys) = 0
    /\ metricsArg.type = "list"
    /\ dateKey # fetched[1].cols[1]
    /\ ret.status = "ok"

\* C6: if a record's key value does not parse as a date, the call raises the
\* parse error and returns no table.
C6_BadKeyRaises ==
    (/\ op \in SingleFetchOps
     /\ KeyPresent
     /\ \E k \in Range(fetched[1].keys) : ~Parses(k))
    => ret = Raised("ParserError")

C6_OneBadAmongGood ==
    /\ IsToPandas
    /\ \E k \in Range(fetched[1].keys) : ~Parses(k)
    /\ \E k \in Range(fetched[1].keys) : Parses(k)
    /\ ret.status = "raise"

\* C7: the writer save_as_xlsx opens has date format m/d/yyyy and datetime
\* format m/d/yyyy h:mmAM/PM.
C7_FixedFormats ==
    writer.open
    => /\ writer.date_format = "m/d/yyyy"
       /\ writer.datetime_format = "m/d/yyyy h:mmAM/PM"

Variant == IF op = "sleep_df" THEN "SleepConverter" ELSE "ActivityConverter"

IsConverterCall(c) == c.fn \in {"SleepConverter", "ActivityConverter"}

\* C8: sleep_df and activity_df, when they return, have run their converter
\* (built with convert_cols) once, after to_pandas, if convert is true, and
\* not at all otherwise, the table then being to_pandas' own; the other
\* methods run no converter.
C8_ConverterIffConvert ==
    /\ (op \in {"sleep_df", "activity_df"} /\ ret.status = "ok")
       => /\ Len(calls) = (IF convertArg THEN 3 ELSE 2)
          /\ calls[2].fn = "to_pandas"
          /\ convertArg => calls[3] = CallConverter(Variant, convertCols)
          /\ ~convertArg =>
               /\ \A i \in 1..Len(calls) : ~IsConverterCall(calls[i])
               /\ ret = ToPandas(fetched[1], metricsArg, "summary_date",
                                 CallerHeap(metricsArg)).outcome
    /\ (op \in SingleFetchOps \ {"sleep_df", "activity_df"})
       => \A i \in 1..Len(calls) : ~IsConverterCall(calls[i])

C8_Converted ==
    /\ op = "sleep_df"
    /\ convertArg
    /\ Len(fetched[1].keys) > 0
    /\ ret.status = "ok"
    /\ calls[3].fn = "SleepConverter"

HasTz(df) == \E i \in 1..Len(df.columns) : df.dtypes[i] = "datetimetz"

\* C9: save_as_xlsx succeeds, and the table handed to the writer is the
\* caller's with every timezone-aware column made naive and every other
\* column unchanged.
C9_TimezoneStripped ==
    writer.open
    => /\ writer.status = "ok"
       /\ ~HasTz(writer.written)
       /\ writer.written.columns = exportArg.columns
       /\ writer.written.data = exportArg.data
       /\ writer.written.index = exportArg.index
       /\ \A i \in 1..Len(exportArg.columns) :
            writer.written.dtypes[i]
              = IF exportArg.dtypes[i] = "datetimetz" THEN "datetime64"
                ELSE exportArg.dtypes[i]

C9_TzExported ==
    /\ writer.open
    /\ HasTz(exportArg)
    /\ \E i \in 1..Len(exportArg.columns) : exportArg.dtypes[i] = "int64"
    /\ writer.status = "ok"

\* C10: after a call the caller's metrics are what they were before it, and
\* every to_pandas call a method makes receives the metrics the caller
\* passed.
C10_MetricsUntouched ==
    /\ metricsAfter = metricsArg
    /\ \A i \in 1..Len(calls) :
         calls[i].fn = "to_pandas" => calls[i].metrics = metricsArg

C10_ThreeFetches ==
    /\ op = "combined_df_edited"
    /\ metricsArg = MetricsList(<<"bogus_col", "score">>)
    /\ Len(calls) = 8
    /\ ret.status = "ok"

====
